---------------------------- MODULE Spec2Model ----------------------------
(***************************************************************************)
(* ERM process diagram: circular layout of N step boxes, connector paths   *)
(* drawn into an SVG surface, hover highlighting, debounced resize.        *)
(*                                                                         *)
(* The sources hold four variants of the same script, each a closed IIFE   *)
(* with its own arrowsSVG / steps / resizeTimeout:                          *)
(*   "quad"   src/script.js 6-181        quadratic curves, no hover        *)
(*   "bezier" src/script.js 190-483      cubic Bezier curves               *)
(*   "arc"    src/unnamed/part_000 167-435   trimmed circular arcs         *)
(*   "pct"    src/unnamed/part_000 442-727   percentage item placement     *)
(* A behaviour of the model is one page running one variant.               *)
(*                                                                         *)
(* Units: lengths are tenths of a CSS pixel, angles are tenths of a        *)
(* degree, time is counted in ticks of 50 ms.  Math.cos / Math.sin are a   *)
(* table of the sine of whole degrees scaled by 10000.                     *)
(***************************************************************************)
EXTENDS Integers, Sequences, FiniteSets, TLC

(* ------------------------------ bounds -------------------------------- *)
MaxN == 4
MaxResizeEvents == 2
\* item counts of the layout-only specification
MaxLayoutN == 8

(* ------------------------- program constants -------------------------- *)
InitDelay == 2
ResizeDelay == 5
circleRadiusRatio == 35
arrowThickness == 4
angleTrimDegrees == 270

Variants == {"quad", "bezier", "arc", "pct"}
HoverVariants == {"bezier", "arc", "pct"}
ContainerSizes == {<<8000, 8000>>, <<6000, 4000>>}
InitialSize == <<8000, 8000>>
\* a container collapsed to zero width or zero height
EmptySizes == {<<0, 4000>>, <<6000, 0>>}
Undefined == -1
FullTurn == 3600

arrowOffset(v) == CASE v = "arc" -> -315 [] v = "bezier" -> 350 [] OTHER -> 400
hoverGlowThickness(v) == IF v = "pct" THEN 5 ELSE 6
hoverGlowColor == "#D4B682"
arrowColors == <<"#000000", "#000000", "#000000", "#000000">>
arrowColor(v, i) ==
  IF v = "arc"
    THEN (IF i + 1 <= Len(arrowColors) THEN arrowColors[i + 1] ELSE "undefined")
    ELSE "#BD9D64"

(* ------------------------------ Math ---------------------------------- *)
SinTable ==
  << 0, 175, 349, 523, 698, 872, 1045, 1219, 1392, 1564, 1736, 1908, 2079,
     2250, 2419, 2588, 2756, 2924, 3090, 3256, 3420, 3584, 3746, 3907, 4067, 4226,
     4384, 4540, 4695, 4848, 5000, 5150, 5299, 5446, 5592, 5736, 5878, 6018, 6157,
     6293, 6428, 6561, 6691, 6820, 6947, 7071, 7193, 7314, 7431, 7547, 7660, 7771,
     7880, 7986, 8090, 8192, 8290, 8387, 8480, 8572, 8660, 8746, 8829, 8910, 8988,
     9063, 9135, 9205, 9272, 9336, 9397, 9455, 9511, 9563, 9613, 9659, 9703, 9744,
     9781, 9816, 9848, 9877, 9903, 9925, 9945, 9962, 9976, 9986, 9994, 9998, 10000 >>

Min(a, b) == IF a < b THEN a ELSE b
Abs(a) == IF a < 0 THEN -a ELSE a

\* sine of a whole number of degrees, scaled by 10000
SinDeg(d) ==
  LET m == d % 360
  IN  CASE m <= 90  -> SinTable[m + 1]
        [] m <= 180 -> SinTable[180 - m + 1]
        [] m <= 270 -> -SinTable[m - 180 + 1]
        [] OTHER    -> -SinTable[360 - m + 1]

MathSin(a) == SinDeg(a \div 10)
MathCos(a) == SinDeg((a \div 10) + 90)

\* value * trig / 10000 rounded to the nearest unit
Scaled(len, trig) ==
  LET p == len * trig
  IN  IF p >= 0 THEN (p + 5000) \div 10000 ELSE -((-p + 5000) \div 10000)

(* ------------------------------ state --------------------------------- *)
VARIABLES
  variant,        \* which of the four scripts the page runs
  domSvg,         \* the document holds an element of class "arrows"
  domSteps,       \* number of elements of class "step" in the document
  containerSize,  \* <<width, height>> of .process-container as measured now
  arrowsSVG,      \* script variable: "undefined", "null" or "svg"
  steps,          \* script variable: Undefined or the NodeList's length
  timers,         \* pending setTimeout callbacks
  resizeTimeout,  \* script variable: id of the last resize timer, 0 = undefined
  nextTimerId,    \* the id the next setTimeout returns
  stepStyle,      \* per item: its left/top style, <<>> entries until positioned
  stepHl,         \* items carrying the class "highlighted"
  svgChildren,    \* child elements of the surface, in document order
  viewport,       \* the surface's width/height/viewBox, <<>> until set
  stepListeners,  \* how many times attachEventListeners has run
  hover,          \* the element under the pointer
  threw,          \* number of uncaught errors raised by callbacks
  errorLogged,    \* console.error has been called
  hist            \* history: bookkeeping read only by the properties

vars == << variant, domSvg, domSteps, containerSize, arrowsSVG, steps, timers,
           resizeTimeout, nextTimerId, stepStyle, stepHl, svgChildren, viewport,
           stepListeners, hover, threw, errorLogged, hist >>

StepIdx == 0 .. (domSteps - 1)
NoHover == <<"none", 0>>
NoStyle == <<>>


(* --------------------------- DOM helpers ------------------------------ *)
IsPath(e) == e.tag = "path"
IsDefs(e) == e.tag = "defs"

\* arrowsSVG.querySelectorAll(sel).forEach(el => el.remove())
RemoveTags(children, tags) == SelectSeq(children, LAMBDA e : e.tag \notin tags)

\* positions in the surface of the elements matching '.arrow-path', in
\* document order (document.querySelectorAll('.arrow-path'))
ArrowPathPos(children) ==
  LET RECURSIVE Collect(_)
      Collect(i) == IF i > Len(children) THEN <<>>
                    ELSE IF IsPath(children[i]) /\ "arrow-path" \in children[i].classes
                           THEN <<i>> \o Collect(i + 1)
                           ELSE Collect(i + 1)
  IN  Collect(1)

PathsOf(children) == SelectSeq(children, IsPath)
DefsOf(children) == SelectSeq(children, IsDefs)

\* the working state of one callback; thrown = an uncaught TypeError ended it
\* circleData = what positionStepsInCircle returned, drawn = how many
\* connectors generateArrows appended, positioned = how many items had
\* their style written, appended = how many elements the surface was given
Page == [stepStyle |-> stepStyle, svgChildren |-> svgChildren,
         viewport |-> viewport, thrown |-> FALSE, circleData |-> <<>>, drawn |-> 0,
         positioned |-> 0, appended |-> 0]
Throw(p) == [p EXCEPT !.thrown = TRUE]

(* --------------------------- circular layout -------------------------- *)
startAngle == -900
angleIncrement(numSteps) == FullTurn \div numSteps

\* the radius taken from the width instead of the smaller dimension
CircleDataWidth(size) ==
  [centerX |-> size[1] \div 2, centerY |-> size[2] \div 2,
   radius |-> (size[1] * circleRadiusRatio) \div 100]

CircleData(size) ==
  [centerX |-> size[1] \div 2, centerY |-> size[2] \div 2,
   radius |-> (Min(size[1], size[2]) * circleRadiusRatio) \div 100]

\* angle of item `index` among numSteps, arc and bezier variants
StepAngle(index, numSteps) == startAngle + (angleIncrement(numSteps) * index)
\* the same in the percentage variant: (index * (360 / n) - 90) degrees
StepAnglePct(index, numSteps) == (index * (FullTurn \div numSteps)) - 900

\* sine and cosine exchanged
PointAtSwapped(c, angle) ==
  [x |-> c.centerX + Scaled(c.radius, MathSin(angle)),
   y |-> c.centerY + Scaled(c.radius, MathCos(angle))]

PointAt(c, angle) ==
  [x |-> c.centerX + Scaled(c.radius, MathCos(angle)),
   y |-> c.centerY + Scaled(c.radius, MathSin(angle))]

\* left/top written in px (tenths of a pixel here); angle records the angle
\* the position was computed from (it is not part of the style)
StylePx(pt, angle) == [left |-> pt.x, top |-> pt.y, unit |-> "px", angle |-> angle]
\* left/top written as a percentage of the container (hundredths of a
\* percent).  In a container of zero width x / containerWidth is 0 / 0: the
\* value 'NaN%' is not a length and the assignment leaves the property as it
\* was (Undefined while it has never been set); the same for the height.
StylePct(pt, size, angle, old) ==
  [left |-> IF size[1] # 0 THEN (pt.x * 10000) \div size[1]
            ELSE IF old = NoStyle THEN Undefined ELSE old.left,
   top |-> IF size[2] # 0 THEN (pt.y * 10000) \div size[2]
           ELSE IF old = NoStyle THEN Undefined ELSE old.top,
   unit |-> "%", angle |-> angle]

\* a layout that moves every item from where it stands instead of placing it
\* from the centre of the container
positionStepsRelative(p) ==
  IF p.thrown THEN p
  ELSE IF steps = Undefined THEN Throw(p)
  ELSE LET c == CircleData(containerSize)
           Place(k, angle) ==
             LET pt == PointAt(c, angle)
             IN  IF p.stepStyle[k] = NoStyle THEN pt
                 ELSE [x |-> p.stepStyle[k].left + (pt.x - c.centerX),
                       y |-> p.stepStyle[k].top + (pt.y - c.centerY)]
       IN  [p EXCEPT !.circleData = c, !.positioned = steps,
                     !.stepStyle =
             [k \in 1 .. steps |->
                IF variant = "pct"
                  THEN LET angle == StepAnglePct(k - 1, steps)
                       IN  StylePct(Place(k, angle), containerSize, angle, p.stepStyle[k])
                  ELSE LET angle == StepAngle(k - 1, steps)
                       IN  StylePx(Place(k, angle), angle)]]

positionStepsInCircle(p) ==
  IF p.thrown THEN p
  ELSE IF steps = Undefined THEN Throw(p)
  ELSE LET c == CircleData(containerSize)
       IN  [p EXCEPT !.circleData = c, !.positioned = steps,
                     !.stepStyle =
             [k \in 1 .. steps |->
                IF variant = "pct"
                  THEN LET angle == StepAnglePct(k - 1, steps)
                       IN  StylePct(PointAt(c, angle), containerSize, angle, p.stepStyle[k])
                  ELSE LET angle == StepAngle(k - 1, steps)
                       IN  StylePx(PointAt(c, angle), angle)]]

(* ------------------------------ renderer ------------------------------ *)
MarkerDefs ==
  [tag |-> "defs",
   markers |-> IF variant = "arc"
                 THEN { <<"arrowhead-phase", i>> : i \in 1 .. Len(arrowColors) }
                 ELSE { <<"arrowhead", 0>> }]

\* arc and bezier variants: viewport, then one more defs element
setupSVG(p) ==
  IF p.thrown THEN p
  ELSE IF arrowsSVG # "svg" THEN Throw(p)
  ELSE [p EXCEPT !.viewport = containerSize,
                 !.appended = @ + 1,
                 !.svgChildren = Append(p.svgChildren, MarkerDefs)]

NewPath(i, d, marker) ==
  [tag |-> "path", stepIndex |-> i, d |-> d,
   stroke |-> arrowColor(variant, i), strokeWidth |-> arrowThickness,
   markerEnd |-> marker,
   classes |-> IF variant = "quad" THEN {"arrow-path", "animated"} ELSE {"arrow-path"},
   listeners |-> 0]

\* arc variant: trimmed arc from item i towards item (i+1) mod numSteps
ArcPath(i, numSteps, c) ==
  LET currentAngle == StepAngle(i, numSteps)
      nextAngle == StepAngle((i + 1) % numSteps, numSteps)
      startTrim == IF i = 1 THEN (angleTrimDegrees * 8) \div 10 ELSE angleTrimDegrees
      s0 == currentAngle + startTrim
      e0 == nextAngle - angleTrimDegrees
      arrowStartAngle == IF s0 < 0 THEN s0 + FullTurn ELSE s0
      e1 == IF e0 < 0 THEN e0 + FullTurn ELSE e0
      arrowEndAngle == IF e1 < arrowStartAngle THEN e1 + FullTurn ELSE e1
      arcSpan == arrowEndAngle - arrowStartAngle
  IN  NewPath(i,
        [cmd |-> "A", from |-> currentAngle, to |-> nextAngle,
         centerX |-> c.centerX, centerY |-> c.centerY,
         r |-> c.radius - arrowOffset("arc"),
         a0 |-> arrowStartAngle, a1 |-> arrowEndAngle,
         largeArcFlag |-> IF Abs(arcSpan) > FullTurn \div 2 THEN 1 ELSE 0,
         sweepFlag |-> 1],
        <<"arrowhead-phase", i + 1>>)

\* bezier variant: createSmoothBezierArrow
BezierPath(i, numSteps, c) ==
  LET fromAngle == StepAngle(i, numSteps)
      toAngle == StepAngle((i + 1) % numSteps, numSteps)
      diff == toAngle - fromAngle
      angleDiff == IF diff < 0 THEN diff + FullTurn ELSE diff
  IN  NewPath(i,
        [cmd |-> "C", from |-> fromAngle, to |-> toAngle,
         centerX |-> c.centerX, centerY |-> c.centerY,
         r |-> c.radius - arrowOffset("bezier"),
         controlRadius |-> (c.radius * 115) \div 100,
         controlAngle1 |-> fromAngle + ((angleDiff * 4) \div 10),
         controlAngle2 |-> fromAngle + ((angleDiff * 6) \div 10)],
        <<"arrowhead", 0>>)

\* Math.atan2 of a point on the circle at `angle`: the angle in (-180, 180]
Atan2Deg(angle) ==
  LET m == angle % FullTurn IN IF m > FullTurn \div 2 THEN m - FullTurn ELSE m

\* percentage variant: createCurvedArrow
PctPath(i, numSteps, c) ==
  LET fromAngle == Atan2Deg(StepAnglePct(i, numSteps))
      toAngle == Atan2Deg(StepAnglePct((i + 1) % numSteps, numSteps))
  IN  NewPath(i,
        [cmd |-> "C", from |-> fromAngle, to |-> toAngle,
         centerX |-> c.centerX, centerY |-> c.centerY,
         r |-> c.radius - arrowOffset("pct"),
         controlRadius |-> (c.radius * 115) \div 100,
         controlAngle1 |-> fromAngle, controlAngle2 |-> toAngle],
        <<"arrowhead", 0>>)

\* quad variant: createCurvedArrow between the measured centres of the
\* boxes; the stylesheet places the boxes, so the measured centres are a
\* function of the container size only.  No data-step-index is set.
QuadPath(i, numSteps, size) ==
  [NewPath(i, [cmd |-> "Q", from |-> i, to |-> (i + 1) % numSteps, size |-> size],
           <<"arrowhead", 0>>)
   EXCEPT !.stepIndex = Undefined]

ConnectorPath(i, numSteps) ==
  LET c == CircleData(containerSize)
  IN  CASE variant = "arc"    -> ArcPath(i, numSteps, c)
        [] variant = "bezier" -> BezierPath(i, numSteps, c)
        [] variant = "pct"    -> PctPath(i, numSteps, c)
        [] OTHER              -> QuadPath(i, numSteps, containerSize)

\* a loop that stops before the connector closing the cycle
AppendConnectorsNoWrap(children, numSteps) ==
  children \o [k \in 1 .. (numSteps - 1) |-> ConnectorPath(k - 1, numSteps)]

\* for (let i = 0; i < numSteps; i++) arrowsSVG.appendChild(path)
AppendConnectors(children, numSteps) ==
  children \o [k \in 1 .. numSteps |-> ConnectorPath(k - 1, numSteps)]

\* path.addEventListener('mouseenter' / 'mouseleave') on every '.arrow-path'
attachArrowHoverEffects(children) ==
  [k \in 1 .. Len(children) |->
     IF IsPath(children[k]) /\ "arrow-path" \in children[k].classes
       THEN [children[k] EXCEPT !.listeners = @ + 1]
       ELSE children[k]]

\* a generateArrows that forgets to remove the connectors already drawn
ClearedNothing == {}

\* what generateArrows removes before drawing
ClearedByGenerate ==
  CASE variant = "arc"    -> {"path", "text", "g"}
    [] variant = "bezier" -> {"path"}
    [] OTHER              -> {}

generateArrows(p) ==
  IF p.thrown THEN p
  ELSE IF arrowsSVG # "svg" THEN Throw(p)
  ELSE IF steps = Undefined THEN Throw(p)
  ELSE CASE variant \in {"arc", "bezier"} ->
              LET kept == RemoveTags(p.svgChildren, ClearedByGenerate)
                  drawn == AppendConnectors(kept, steps)
              IN  [p EXCEPT !.drawn = Len(drawn) - Len(kept),
                            !.appended = @ + (Len(drawn) - Len(kept)),
                            !.svgChildren =
                     IF variant = "bezier" THEN attachArrowHoverEffects(drawn)
                                           ELSE drawn]
         [] OTHER ->
              LET withDefs == Append(p.svgChildren, MarkerDefs)
                  drawn == AppendConnectors(withDefs, steps)
              IN  [p EXCEPT !.drawn = Len(drawn) - Len(withDefs),
                            !.appended = @ + 1 + (Len(drawn) - Len(withDefs)),
                            !.svgChildren =
                     IF variant = "pct" THEN attachArrowHoverEffects(drawn)
                                        ELSE drawn]

\* the resize callbacks of the quad and pct variants start by removing
\* 'defs, path' from the surface
clearExistingArrows(p) ==
  IF p.thrown THEN p
  ELSE IF arrowsSVG # "svg" THEN Throw(p)
  ELSE [p EXCEPT !.svgChildren = RemoveTags(p.svgChildren, {"defs", "path"})]

\* the body of init's delayed callback, up to attachEventListeners
InitPassBody(p) ==
  CASE variant \in {"arc", "bezier"} ->
         generateArrows(setupSVG(positionStepsInCircle(p)))
    [] variant = "pct" -> generateArrows(positionStepsInCircle(p))
    [] OTHER -> generateArrows(p)

\* a resize callback that redraws the connectors and leaves the items alone
ResizePassBodyNoLayout(p) ==
  CASE variant \in {"arc", "bezier"} -> generateArrows(setupSVG(p))
    [] OTHER -> generateArrows(clearExistingArrows(p))

\* the body of the debounced resize callback
ResizePassBody(p) ==
  CASE variant \in {"arc", "bezier"} ->
         generateArrows(setupSVG(positionStepsInCircle(p)))
    [] variant = "pct" -> generateArrows(positionStepsInCircle(clearExistingArrows(p)))
    [] OTHER -> generateArrows(clearExistingArrows(p))

(* ------------------------- highlight handlers ------------------------- *)
\* the element at position `idx` (0-based) of querySelectorAll('.arrow-path')
\* gets the hover stroke; the arc variant keeps the stroke colour
HighlightArrow(children, idx) ==
  LET pos == ArrowPathPos(children)
  IN  IF idx < 0 \/ idx >= Len(pos) THEN children
      ELSE [children EXCEPT ![pos[idx + 1]] =
              [@ EXCEPT !.stroke = IF variant = "arc" THEN @ ELSE hoverGlowColor,
                        !.strokeWidth = hoverGlowThickness(variant),
                        !.classes = @ \cup {"highlighted"}]]

\* highlightStepAndArrow (arc, bezier) / highlightStepArrow (pct): the new
\* <<stepHl, svgChildren>>
highlightStepAndArrow(stepIndex) ==
  << IF variant # "pct" /\ steps # Undefined /\ stepIndex >= 0 /\ stepIndex < steps
       THEN stepHl \cup {stepIndex} ELSE stepHl,
     HighlightArrow(svgChildren, stepIndex) >>

\* every '.arrow-path' back to the base stroke, class removed
ResetArrows(children) ==
  LET pos == ArrowPathPos(children)
      Rank(k) == CHOOSE j \in 1 .. Len(pos) : pos[j] = k
  IN  [k \in 1 .. Len(children) |->
         IF IsPath(children[k]) /\ "arrow-path" \in children[k].classes
           THEN [children[k] EXCEPT !.stroke = arrowColor(variant, Rank(k) - 1),
                                    !.strokeWidth = arrowThickness,
                                    !.classes = @ \ {"highlighted"}]
           ELSE children[k]]

\* removeHighlights (arc, bezier) / removeArrowHighlights (pct)
removeHighlights ==
  << IF variant = "pct" THEN stepHl ELSE {}, ResetArrows(svgChildren) >>

(* ------------------------------ timers -------------------------------- *)
setTimeout(ts, kind, delay) ==
  ts \cup {[id |-> nextTimerId, kind |-> kind, remaining |-> delay]}
\* a resize listener that arms a new timer without cancelling the old one
clearTimeoutNoop(ts, id) == ts
clearTimeout(ts, id) == {t \in ts : t.id # id}

\* a callback whose delay has elapsed runs before any later event is handled
NoTimerDue == \A t \in timers : t.remaining > 0

Hist(op) == [hist EXCEPT !.lastOp = op, !.pre = <<>>, !.prev = <<>>, !.key = <<>>,
                        !.itemHandlers = 0]

\* the path data of the last n children of the surface
LastGeo(children, n) ==
  [k \in 1 .. n |-> children[Len(children) - n + k].d]

\* what the last completed pass left behind, taken as the next pass starts:
\* the size it measured, the item styles and the path data it produced
PrevPass ==
  IF hist.passSize = <<>> THEN <<>>
  ELSE [size |-> hist.passSize, style |-> stepStyle,
        geo |-> LastGeo(svgChildren, hist.drawn)]

(* ------------------------------ Init ---------------------------------- *)
Init ==
  /\ variant \in Variants
  /\ domSvg \in BOOLEAN
  /\ domSteps \in 0 .. MaxN
  /\ containerSize = InitialSize
  /\ arrowsSVG = "undefined"
  /\ steps = Undefined
  /\ timers = {}
  /\ resizeTimeout = 0
  /\ nextTimerId = 1
  /\ stepStyle = [k \in 1 .. domSteps |-> NoStyle]
  /\ stepHl = {}
  /\ svgChildren = <<>>
  /\ viewport = <<>>
  /\ stepListeners = 0
  /\ hover = NoHover
  /\ threw = 0
  /\ errorLogged = FALSE
  /\ hist = [lastOp |-> "load", pre |-> <<>>,
             resizeEvents |-> 0, sinceResize |-> ResizeDelay,
             eventSize |-> <<>>, burstLen |-> 0, bursts |-> 0,
             resizePasses |-> 0, passAfter |-> 0,
             passes |-> 0, passThrew |-> FALSE, drawn |-> 0, circleData |-> <<>>,
             passSize |-> <<>>, prev |-> <<>>, key |-> <<>>,
             positioned |-> 0, appended |-> 0, itemHandlers |-> 0]

(* ----------------------------- actions -------------------------------- *)
\* an init that checks the surface but not the item list
InitAbortsSvgOnly == ~domSvg

\* !arrowsSVG || steps.length === 0
InitAborts == ~domSvg \/ domSteps = 0

\* init(), run on DOMContentLoaded (or at once when the document is loaded)
DOMContentLoaded ==
  /\ arrowsSVG = "undefined"
  /\ NoTimerDue
  /\ arrowsSVG' = IF domSvg THEN "svg" ELSE "null"
  /\ steps' = domSteps
  /\ IF InitAborts
       THEN /\ errorLogged' = TRUE
            /\ UNCHANGED << timers, nextTimerId >>
       ELSE /\ timers' = setTimeout(timers, "init", InitDelay)
            /\ nextTimerId' = nextTimerId + 1
            /\ UNCHANGED errorLogged
  /\ hist' = Hist("init")
  /\ UNCHANGED << variant, domSvg, domSteps, containerSize, resizeTimeout, stepStyle,
                  stepHl, svgChildren, viewport, stepListeners, hover, threw >>

\* a pass removed the connector under the pointer: no leave event reaches it
HoverAfter(removedPaths) ==
  IF hover[1] = "path" /\ removedPaths THEN NoHover ELSE hover

\* init's delayed callback
InitPass ==
  \E t \in timers :
    /\ t.kind = "init" /\ t.remaining = 0
    /\ \E p \in {InitPassBody(Page)} :
           /\ stepStyle' = p.stepStyle
           /\ svgChildren' = p.svgChildren
           /\ viewport' = p.viewport
           /\ threw' = IF p.thrown THEN threw + 1 ELSE threw
           /\ stepListeners' = IF p.thrown THEN stepListeners ELSE stepListeners + 1
           /\ hover' = HoverAfter(~p.thrown /\ variant \in {"arc", "bezier"})
           /\ hist' = [Hist("initPass") EXCEPT
                         !.passes = IF p.thrown THEN @ ELSE @ + 1,
                         !.passThrew = p.thrown,
                         !.drawn = IF p.thrown THEN @ ELSE p.drawn,
                         !.circleData = p.circleData,
                         !.positioned = p.positioned, !.appended = p.appended,
                         !.passSize = IF p.thrown THEN @ ELSE containerSize,
                         !.prev = IF p.thrown THEN <<>> ELSE PrevPass]
    /\ timers' = timers \ {t}
    /\ UNCHANGED << variant, domSvg, domSteps, containerSize, arrowsSVG, steps,
                    resizeTimeout, nextTimerId, stepHl, errorLogged >>

\* the window's resize listener, the container having taken one of the
\* given sizes
ResizeEvent(sizes) ==
  \E size \in sizes :
    /\ NoTimerDue
    /\ hist.resizeEvents < MaxResizeEvents
    /\ containerSize' = size
    /\ timers' = setTimeout(clearTimeout(timers, resizeTimeout), "resize", ResizeDelay)
    /\ resizeTimeout' = nextTimerId
    /\ nextTimerId' = nextTimerId + 1
    /\ hist' = [Hist("resize") EXCEPT
                  !.resizeEvents = @ + 1,
                  !.sinceResize = 0,
                  !.eventSize = size,
                  !.burstLen = IF hist.sinceResize < ResizeDelay THEN @ + 1 ELSE 1,
                  !.bursts = IF hist.sinceResize < ResizeDelay THEN @ ELSE @ + 1]
    /\ UNCHANGED << variant, domSvg, domSteps, arrowsSVG, steps, stepStyle, stepHl,
                    svgChildren, viewport, stepListeners, hover, threw, errorLogged >>

\* the debounced resize callback
ResizePass ==
  \E t \in timers :
    /\ t.kind = "resize" /\ t.remaining = 0
    /\ \E p \in {ResizePassBody(Page)} :
           /\ stepStyle' = p.stepStyle
           /\ svgChildren' = p.svgChildren
           /\ viewport' = p.viewport
           /\ threw' = IF p.thrown THEN threw + 1 ELSE threw
           /\ hover' = HoverAfter(~p.thrown)
           /\ hist' = [Hist("resizePass") EXCEPT
                         !.passes = IF p.thrown THEN @ ELSE @ + 1,
                         !.passThrew = p.thrown,
                         !.drawn = IF p.thrown THEN @ ELSE p.drawn,
                         !.circleData = p.circleData,
                         !.positioned = p.positioned, !.appended = p.appended,
                         !.passSize = IF p.thrown THEN @ ELSE containerSize,
                         !.prev = IF p.thrown THEN <<>> ELSE PrevPass,
                         !.resizePasses = @ + 1,
                         !.itemHandlers = stepListeners,
                         !.passAfter = hist.sinceResize]
    /\ timers' = timers \ {t}
    /\ UNCHANGED << variant, domSvg, domSteps, containerSize, arrowsSVG, steps,
                    resizeTimeout, nextTimerId, stepHl, stepListeners, errorLogged >>

\* 50 ms pass
Tick ==
  /\ NoTimerDue
  /\ timers # {} \/ hist.sinceResize < ResizeDelay
  /\ timers' = { [t EXCEPT !.remaining = @ - 1] : t \in timers }
  /\ hist' = [hist EXCEPT
                !.sinceResize = IF @ < ResizeDelay THEN @ + 1 ELSE @]
  /\ UNCHANGED << variant, domSvg, domSteps, containerSize, arrowsSVG, steps,
                  resizeTimeout, nextTimerId, stepStyle, stepHl, svgChildren,
                  viewport, stepListeners, hover, threw, errorLogged >>

\* the pointer moves onto item k: mouseenter
PointerEnterStep ==
  \E k \in StepIdx :
    /\ NoTimerDue
    /\ hover = NoHover
    /\ hover' = <<"step", k>>
    /\ \E r \in { IF stepListeners > 0 /\ variant \in HoverVariants
                    THEN highlightStepAndArrow(k) ELSE << stepHl, svgChildren >> } :
           /\ stepHl' = r[1]
           /\ svgChildren' = r[2]
    /\ hist' = [Hist("enterStep") EXCEPT !.pre = << stepHl, svgChildren >>]
    /\ UNCHANGED << variant, domSvg, domSteps, containerSize, arrowsSVG, steps, timers,
                    resizeTimeout, nextTimerId, stepStyle, viewport, stepListeners,
                    threw, errorLogged >>

\* the pointer moves onto the connector at position pos of the surface
PointerEnterPath ==
  \E pos \in 1 .. Len(svgChildren) :
    /\ NoTimerDue
    /\ hover = NoHover
    /\ IsPath(svgChildren[pos])
    /\ hover' = <<"path", pos>>
    /\ \E r \in { IF svgChildren[pos].listeners > 0
                    THEN highlightStepAndArrow(svgChildren[pos].stepIndex)
                    ELSE << stepHl, svgChildren >> } :
           /\ stepHl' = r[1]
           /\ svgChildren' = r[2]
    /\ hist' = [Hist("enterPath") EXCEPT !.pre = << stepHl, svgChildren >>]
    /\ UNCHANGED << variant, domSvg, domSteps, containerSize, arrowsSVG, steps, timers,
                    resizeTimeout, nextTimerId, stepStyle, viewport, stepListeners,
                    threw, errorLogged >>

\* the pointer leaves the element it is on: mouseleave
PointerLeave ==
  /\ NoTimerDue
  /\ hover # NoHover
  /\ hover' = NoHover
  /\ LET heard == IF hover[1] = "step"
                    THEN stepListeners > 0 /\ variant \in HoverVariants
                    ELSE svgChildren[hover[2]].listeners > 0
         r == IF heard THEN removeHighlights ELSE << stepHl, svgChildren >>
     IN  /\ stepHl' = r[1]
         /\ svgChildren' = r[2]
  /\ hist' = [Hist(IF hover[1] = "step" THEN "leaveStep" ELSE "leavePath")
                EXCEPT !.pre = IF hist.lastOp = "enterStep" THEN hist.pre ELSE <<>>]
  /\ UNCHANGED << variant, domSvg, domSteps, containerSize, arrowsSVG, steps, timers,
                  resizeTimeout, nextTimerId, stepStyle, viewport, stepListeners,
                  threw, errorLogged >>

Keys == {"Enter", " ", "Tab"}

\* a key goes down while item k has the focus: the keydown listener that
\* attachEventListeners put on the item; Enter and Space are consumed and
\* logged ("Selected step k+1"), nothing else is touched.  hist.key keeps
\* the event, whether the page was idle, and the line written to the console
KeyDown ==
  \E k \in StepIdx, key \in Keys :
    /\ NoTimerDue
    /\ LET heard == stepListeners > 0 /\ key \in {"Enter", " "}
       IN  hist' = [Hist("keydown") EXCEPT
                      !.key = [index |-> k, key |-> key,
                               idle |-> stepHl = {} /\ hover = NoHover,
                               logged |-> IF heard THEN k + 1 ELSE 0]]
    /\ UNCHANGED << variant, domSvg, domSteps, containerSize, arrowsSVG, steps, timers,
                    resizeTimeout, nextTimerId, stepStyle, stepHl, svgChildren,
                    viewport, stepListeners, hover, threw, errorLogged >>

Next ==
  \/ DOMContentLoaded
  \/ InitPass
  \/ ResizeEvent(ContainerSizes)
  \/ ResizePass
  \/ Tick
  \/ PointerEnterStep
  \/ PointerEnterPath
  \/ PointerLeave

Spec == Init /\ [][Next]_vars

\* the same page with the keyboard: KeyDown changes no variable of the
\* program, so Spec and SpecKeys run through the same program states
NextKeys ==
  \/ Next
  \/ KeyDown

SpecKeys == Init /\ [][NextKeys]_vars

\* the page without pointer and keyboard: load, resize events and timers.
\* The pointer and key handlers write only the highlight (stepHl and the
\* stroke and class of the paths), which no layout pass reads.
NextLayout ==
  \/ DOMContentLoaded
  \/ InitPass
  \/ ResizeEvent(ContainerSizes)
  \/ ResizePass
  \/ Tick

\* the layout alone, for item counts up to MaxLayoutN and for containers
\* that are, or become, empty
InitLayout ==
  /\ variant \in Variants
  /\ domSvg \in BOOLEAN
  /\ domSteps \in 0 .. MaxLayoutN
  /\ containerSize \in {InitialSize} \cup EmptySizes
  /\ arrowsSVG = "undefined"
  /\ steps = Undefined
  /\ timers = {}
  /\ resizeTimeout = 0
  /\ nextTimerId = 1
  /\ stepStyle = [k \in 1 .. domSteps |-> NoStyle]
  /\ stepHl = {}
  /\ svgChildren = <<>>
  /\ viewport = <<>>
  /\ stepListeners = 0
  /\ hover = NoHover
  /\ threw = 0
  /\ errorLogged = FALSE
  /\ hist = [lastOp |-> "load", pre |-> <<>>,
             resizeEvents |-> 0, sinceResize |-> ResizeDelay,
             eventSize |-> <<>>, burstLen |-> 0, bursts |-> 0,
             resizePasses |-> 0, passAfter |-> 0,
             passes |-> 0, passThrew |-> FALSE, drawn |-> 0, circleData |-> <<>>,
             passSize |-> <<>>, prev |-> <<>>, key |-> <<>>,
             positioned |-> 0, appended |-> 0, itemHandlers |-> 0]

\* ... and the window resized so that the container collapses
NextLayoutAll ==
  \/ NextLayout
  \/ ResizeEvent(EmptySizes)

SpecLayout == InitLayout /\ [][NextLayoutAll]_vars

\* timers fire: time passes while a callback is pending and a callback
\* whose delay has elapsed is run by the event loop
TimerStep == Tick \/ InitPass \/ ResizePass

SpecFair == Init /\ [][NextLayout]_vars /\ WF_vars(TimerStep)

(* ============================ properties ============================== *)
Connectors == PathsOf(svgChildren)
LastWasPass == hist.lastOp \in {"initPass", "resizePass"} /\ ~hist.passThrew
\* the container size a connector's geometry was computed from
DrawnFor(e) == IF e.d.cmd = "Q" THEN e.d.size ELSE << 2 * e.d.centerX, 2 * e.d.centerY >>

(* C1: in the arc and the cubic-Bezier variant, once a layout pass has     *)
(* completed with N >= 1 items, the surface holds exactly N connector      *)
(* paths; the i-th runs from item i's angle (-90 deg + i * 360/N) to item  *)
(* ((i+1) mod N)'s angle and is tagged stepIndex i.                        *)
C1_ExactlyNConnectors ==
  (variant \in {"arc", "bezier"} /\ hist.passes > 0 /\ steps >= 1) =>
     /\ Len(Connectors) = steps
     /\ \A k \in 1 .. Len(Connectors) :
          /\ Connectors[k].stepIndex = k - 1
          /\ (Connectors[k].d.from + 900) * steps = (k - 1) * FullTurn
          /\ (Connectors[k].d.to + 900) * steps = (k % steps) * FullTurn
     /\ { Connectors[k].stepIndex : k \in 1 .. Len(Connectors) } = 0 .. (steps - 1)

C1_Witness ==
  /\ variant = "bezier" /\ steps = 3 /\ hist.passes >= 2
  /\ hist.lastOp = "resizePass" /\ Len(Connectors) = 3

(* C2: after every layout pass of the arc and cubic-Bezier variants the    *)
(* surface holds the elements of one pass only: one defs element and N     *)
(* connector paths.                                                        *)
C2_NoLeakedElements ==
  (variant \in {"arc", "bezier"} /\ hist.passes > 0 /\ steps >= 1) =>
     /\ Len(DefsOf(svgChildren)) = 1
     /\ Len(Connectors) = steps

(* C3: resize debouncing.  At most one resize timer is pending and it is   *)
(* the one the latest resize event armed; a burst of resize events less    *)
(* than 250 ms apart gets exactly one recomputation, which runs 250 ms     *)
(* after the burst's last event and draws for the container size of that   *)
(* event.                                                                  *)
C3_ResizeDebounce ==
  LET pending == { t \in timers : t.kind = "resize" }
  IN  /\ Cardinality(pending) <= 1
      /\ \A t \in pending : /\ t.id = resizeTimeout
                            /\ t.remaining = ResizeDelay - hist.sinceResize
      /\ hist.resizePasses <= hist.bursts
      /\ hist.sinceResize < ResizeDelay => hist.resizePasses = hist.bursts - 1
      /\ (hist.sinceResize = ResizeDelay /\ NoTimerDue) => hist.resizePasses = hist.bursts
      /\ hist.resizePasses > 0 => hist.passAfter = ResizeDelay
      /\ (hist.lastOp = "resizePass" /\ ~hist.passThrew) =>
            \A k \in 1 .. Len(Connectors) : DrawnFor(Connectors[k]) = hist.eventSize

C3_Witness ==
  /\ hist.burstLen = 2 /\ hist.bursts = 1 /\ hist.resizePasses = 1
  /\ hist.lastOp = "resizePass" /\ ~hist.passThrew
  /\ Len(Connectors) >= 2 /\ hist.eventSize # InitialSize

(* C4: at every moment at most one item and at most one connector carry   *)
(* the highlighted style.                                                  *)
HighlightedConnectors ==
  { k \in 1 .. Len(svgChildren) :
      IsPath(svgChildren[k]) /\ "highlighted" \in svgChildren[k].classes }

C4_AtMostOneHighlight ==
  /\ Cardinality(stepHl) <= 1
  /\ Cardinality(HighlightedConnectors) <= 1

(* C5: pointer-enter on an item directly followed by pointer-leave gives   *)
(* back the state before the enter: the same highlighted items and the     *)
(* same stroke colour, stroke width and classes on every connector.        *)
C5_HighlightRestored ==
  (hist.lastOp = "leaveStep" /\ hist.pre # <<>>) =>
     << stepHl, svgChildren >> = hist.pre

(* C6: when the surface is absent or there are no items, init logs the     *)
(* error and does nothing else: no error is raised, no first pass is       *)
(* scheduled or run, no item listener is attached, and as long as no       *)
(* resize callback has run no item is positioned and nothing is drawn.     *)
C6_InitAbortsQuietly ==
  (arrowsSVG # "undefined" /\ (~domSvg \/ domSteps = 0)) =>
     /\ errorLogged
     /\ \A t \in timers : t.kind # "init"
     /\ stepListeners = 0
     /\ hist.resizePasses = 0 =>
          /\ threw = 0
          /\ \A k \in 1 .. domSteps : stepStyle[k] = NoStyle
          /\ svgChildren = <<>>
          /\ viewport = <<>>

C6_Witness ==
  /\ hist.lastOp = "init" /\ errorLogged /\ timers = {}
  /\ ~domSvg /\ domSteps = 4 /\ variant = "arc"

(* C7: outside a successful init the page stays inert: before init has     *)
(* run, or when it aborted, no callback raises an error and the surface    *)
(* is never modified.                                                      *)
C7_InertOutsideInit ==
  (arrowsSVG = "undefined" \/ ~domSvg \/ domSteps = 0) =>
     /\ threw = 0
     /\ svgChildren = <<>>
     /\ viewport = <<>>

ResolvedLeft(st, size) ==
  IF st.unit = "px" THEN st.left ELSE (st.left * size[1]) \div 10000
ResolvedTop(st, size) ==
  IF st.unit = "px" THEN st.top ELSE (st.top * size[2]) \div 10000

(* C9: container 800 x 800, 4 items, ratio 0.35: positionStepsInCircle     *)
(* returns radius 280 and center (400,400) and places item 0 at (400,120), *)
(* item 1 at (680,400), item 2 at (400,680), item 3 at (120,400).          *)
C9_ConcreteLayout ==
  (variant # "quad" /\ steps = 4 /\ LastWasPass /\ containerSize = <<8000, 8000>>) =>
     /\ hist.circleData = [centerX |-> 4000, centerY |-> 4000, radius |-> 2800]
     /\ [k \in 1 .. 4 |-> << ResolvedLeft(stepStyle[k], containerSize),
                             ResolvedTop(stepStyle[k], containerSize) >>]
          = << <<4000, 1200>>, <<6800, 4000>>, <<4000, 6800>>, <<1200, 4000>> >>

C9_Witness ==
  /\ variant = "arc" /\ steps = 4 /\ LastWasPass /\ containerSize = <<8000, 8000>>
  /\ stepStyle[4].left = 1200 /\ stepStyle[4].unit = "px"

(* C10: for N >= 2 items and every container size, item k is placed from   *)
(* the angle -90 deg + k * 360/N deg, consecutive items 360/N deg apart,   *)
(* and every item lies at distance 0.35 * min(width, height) from the      *)
(* centre of the container (to within one pixel of the grid).              *)
C10_EvenlySpacedOnCircle ==
  (variant # "quad" /\ steps >= 2 /\ LastWasPass) =>
     LET w == containerSize[1]
         h == containerSize[2]
         r == (35 * (IF w < h THEN w ELSE h)) \div 100
     IN  /\ \A k \in 1 .. steps :
               /\ (stepStyle[k].angle + 900) * steps = (k - 1) * 3600
               /\ LET dx == ResolvedLeft(stepStyle[k], containerSize) - (w \div 2)
                      dy == ResolvedTop(stepStyle[k], containerSize) - (h \div 2)
                      d2 == (dx * dx) + (dy * dy)
                  IN  (r - 10) * (r - 10) <= d2 /\ d2 <= (r + 10) * (r + 10)
         /\ \A k \in 1 .. (steps - 1) :
               /\ stepStyle[k + 1].angle > stepStyle[k].angle
               /\ (stepStyle[k + 1].angle - stepStyle[k].angle) * steps = 3600

C10_Witness ==
  /\ variant = "pct" /\ steps = 3 /\ LastWasPass /\ containerSize = <<6000, 4000>>
  /\ stepStyle[2].unit = "%"

(* C11: idempotence.  A completed layout pass that follows a completed     *)
(* pass run for the same container size and the same items leaves every    *)
(* item with the same left/top and produces connectors with the same path  *)
(* data as the pass before it: nothing drifts.                             *)
C11_PassIdempotent ==
  (LastWasPass /\ hist.prev # <<>> /\ hist.prev.size = containerSize) =>
     /\ stepStyle = hist.prev.style
     /\ LastGeo(svgChildren, hist.drawn) = hist.prev.geo

C11_Witness ==
  /\ LastWasPass /\ hist.prev # <<>> /\ hist.prev.size = containerSize
  /\ hist.lastOp = "resizePass" /\ hist.passes >= 2
  /\ variant = "arc" /\ steps = 4 /\ containerSize = <<6000, 4000>>
  /\ Len(hist.prev.geo) = 4 /\ stepStyle[2] # NoStyle

(* C12: keyboard activation.  When Enter or Space goes down on item k     *)
(* while nothing is highlighted and the item listeners are attached, item  *)
(* k carries the class "highlighted" and so does the connector leaving     *)
(* item k.                                                                 *)
C12_KeyboardHighlights ==
  (/\ hist.lastOp = "keydown" /\ hist.key.key \in {"Enter", " "}
   /\ hist.key.idle /\ stepListeners > 0) =>
     /\ hist.key.index \in stepHl
     /\ \E k \in HighlightedConnectors : svgChildren[k].stepIndex = hist.key.index

\* init found the surface and at least one item
InitSucceeded == arrowsSVG = "svg" /\ steps >= 1
\* no callback is pending: every resize event has had its pass
Settled == InitSucceeded /\ timers = {}
\* every item is placed, and every connector drawn, for the size the
\* container has now
PlacedForCurrentSize ==
  LET w == containerSize[1]
      h == containerSize[2]
      r == (35 * (IF w < h THEN w ELSE h)) \div 100
  IN  /\ Len(Connectors) >= steps
      /\ \A k \in 1 .. Len(Connectors) : DrawnFor(Connectors[k]) = containerSize
      /\ variant # "quad" =>
            \A k \in 1 .. steps :
               /\ stepStyle[k] # NoStyle
               /\ LET dx == ResolvedLeft(stepStyle[k], containerSize) - (w \div 2)
                      dy == ResolvedTop(stepStyle[k], containerSize) - (h \div 2)
                      d2 == (dx * dx) + (dy * dy)
                  IN  (r - 10) * (r - 10) <= d2 /\ d2 <= (r + 10) * (r + 10)

(* C13: eventual consistency after resize.  Once init has succeeded, and   *)
(* timers being fair, the page always comes to a state where no callback   *)
(* is pending (the pass owed to the last resize event has run); and in     *)
(* every such state all items are placed and all connectors drawn for the  *)
(* container's current size: no connector of an earlier size remains.      *)
C13_ResizeSettles ==
  /\ [](InitSucceeded => <>Settled)
  /\ [](Settled => PlacedForCurrentSize)

C13_Witness ==
  /\ Settled /\ PlacedForCurrentSize /\ variant = "arc" /\ steps = 3
  /\ hist.lastOp = "resizePass" /\ hist.resizeEvents = 2 /\ hist.resizePasses = 2
  /\ containerSize = <<6000, 4000>> /\ hist.prev # <<>> /\ hist.prev.size = <<8000, 8000>>

(* C14: arc variant, N >= 2.  Connector i starts after item i's angle and  *)
(* ends before the angle of item (i+1) mod N, sweeping clockwise the short *)
(* way between the two; its large-arc flag is 1 only when the span left    *)
(* after trimming exceeds 180 degrees.                                     *)
C14_ArcShortWay ==
  (variant = "arc" /\ LastWasPass /\ steps >= 2) =>
     \A k \in 1 .. Len(Connectors) :
        LET d == Connectors[k].d
            gap == (d.to - d.from) % 3600
            lead == (d.a0 - d.from) % 3600
            span == d.a1 - d.a0
        IN  /\ lead > 0 /\ span > 0 /\ lead + span < gap
            /\ d.sweepFlag = 1
            /\ d.largeArcFlag = 1 => span > 1800

\* the container has no area, or the document has no items
Degenerate == containerSize[1] = 0 \/ containerSize[2] = 0 \/ domSteps = 0

(* C15: degenerate inputs.  A layout pass (first or resize) run while the  *)
(* container has zero width or zero height, or while there are no items,   *)
(* raises no error, positions no item, draws no connector and adds no      *)
(* element to the surface.                                                 *)
C15_DegenerateNoop ==
  (hist.lastOp \in {"initPass", "resizePass"} /\ Degenerate) =>
     /\ ~hist.passThrew
     /\ hist.positioned = 0
     /\ hist.drawn = 0
     /\ hist.appended = 0

(* C16: viewport matches container.  After every completed layout pass,   *)
(* in every variant, the surface's width, height and viewBox are the       *)
(* container size measured in that pass, the size its connectors were      *)
(* computed from.                                                          *)
C16_ViewportMatchesContainer ==
  LastWasPass =>
     /\ viewport = containerSize
     /\ \A k \in 1 .. hist.drawn :
          DrawnFor(svgChildren[Len(svgChildren) - hist.drawn + k]) = viewport

(* C17: coordinate consistency.  In every reachable state, also between   *)
(* a resize event and its debounced pass, every positioned item stands     *)
(* (where its left/top resolve to in the container as it is now) on the    *)
(* circle every connector on the surface was computed from: same centre,   *)
(* same radius, that is, the same container measurement.                   *)
C17_ItemsMatchConnectors ==
  \A k \in 1 .. Len(stepStyle), j \in 1 .. Len(Connectors) :
     (stepStyle[k] # NoStyle /\ Connectors[j].d.cmd # "Q") =>
        LET d == Connectors[j].d
            r == d.r + arrowOffset(variant)
            dx == ResolvedLeft(stepStyle[k], containerSize) - d.centerX
            dy == ResolvedTop(stepStyle[k], containerSize) - d.centerY
            d2 == (dx * dx) + (dy * dy)
        IN  (r - 10) * (r - 10) <= d2 /\ d2 <= (r + 10) * (r + 10)

(* C18: init / resize race.  In the quad and the pct variant, whose first  *)
(* pass draws without clearing, the surface holds exactly N connector      *)
(* paths and exactly one defs element after every completed pass, however  *)
(* init's delayed pass and the debounced resize passes interleave.         *)
C18_NoDuplicateAfterRace ==
  (variant \in {"quad", "pct"} /\ LastWasPass /\ steps >= 1) =>
     /\ Len(Connectors) = steps
     /\ Len(DefsOf(svgChildren)) = 1

(* C19: highlight correlation.  In the arc and the cubic-Bezier variant,   *)
(* in every reachable state item k carries the class "highlighted" exactly *)
(* when the connector tagged k carries the highlighted stroke width and    *)
(* class; a resize pass run while item k is hovered leaves both            *)
(* highlighted or both at baseline.                                        *)
C19_HighlightCorrelated ==
  variant \in {"arc", "bezier"} =>
     \A k \in StepIdx :
        k \in stepHl <=>
          \E j \in 1 .. Len(Connectors) :
             /\ Connectors[j].stepIndex = k
             /\ "highlighted" \in Connectors[j].classes
             /\ Connectors[j].strokeWidth = hoverGlowThickness(variant)

\* how many marker definitions on the surface carry the given id
TimesDefined(id) ==
  Cardinality({ k \in 1 .. Len(svgChildren) :
                  IsDefs(svgChildren[k]) /\ id \in svgChildren[k].markers })

(* C20: marker resolution.  Arc variant, N >= 1: after any sequence of     *)
(* completed passes, the marker id that connector i names in its           *)
(* marker-end, arrowhead-phase-(i+1), is defined on the surface, and       *)
(* defined exactly once.                                                   *)
C20_MarkerDefinedOnce ==
  (variant = "arc" /\ LastWasPass /\ steps >= 1) =>
     \A j \in 1 .. Len(Connectors) :
        /\ Connectors[j].markerEnd = <<"arrowhead-phase", Connectors[j].stepIndex + 1>>
        /\ TimesDefined(Connectors[j].markerEnd) = 1

\* nothing was highlighted when the last pointer-enter happened
WasIdle ==
  /\ hist.pre # <<>> /\ hist.pre[1] = {}
  /\ \A j \in 1 .. Len(hist.pre[2]) :
        IsPath(hist.pre[2][j]) => "highlighted" \notin hist.pre[2][j].classes

(* C21: pointer enter and leave per connector.  In the variants with hover *)
(* highlighting, when the pointer enters the connector tagged k while      *)
(* nothing is highlighted, a connector tagged k gets the highlighted       *)
(* stroke width and class, no other connector does, and (where entering    *)
(* item k marks the item) item k is highlighted; when the pointer leaves   *)
(* a connector nothing is highlighted.  This for the connectors of the     *)
(* first pass and of every resize pass.                                    *)
C21_ConnectorHover ==
  variant \in HoverVariants =>
     /\ (hist.lastOp = "enterPath" /\ WasIdle) =>
           LET k == svgChildren[hover[2]].stepIndex
           IN  /\ HighlightedConnectors # {}
               /\ \A j \in HighlightedConnectors :
                     /\ svgChildren[j].stepIndex = k
                     /\ svgChildren[j].strokeWidth = hoverGlowThickness(variant)
               /\ variant # "pct" => stepHl = {k}
     /\ hist.lastOp = "leavePath" =>
           /\ stepHl = {}
           /\ HighlightedConnectors = {}

(* C22: handlers do not accumulate.  In the two cubic-Bezier variants      *)
(* (bezier and pct) attachEventListeners runs at most once, so no item     *)
(* ever has more than one pointer-enter, pointer-leave and keydown         *)
(* handler and a resize pass leaves them as they are; and once the init    *)
(* pass has run, every connector path on the surface has exactly one       *)
(* pointer-enter and one pointer-leave handler, whatever passes ran.       *)
C22_HandlersDoNotAccumulate ==
  variant \in {"bezier", "pct"} =>
     /\ stepListeners <= 1
     /\ hist.lastOp = "resizePass" => stepListeners = hist.itemHandlers
     /\ stepListeners = 1 =>
           \A j \in 1 .. Len(Connectors) : Connectors[j].listeners = 1

=============================================================================
